---- MODULE Spec2Model ----
(***************************************************************************)
(* Model of terraform_deps.py: the dependency-map builder                  *)
(* (build_dependency_dict / find_deps_for_dir) and the reverse             *)
(* reachability query (find_mods_affected), as driven by main().           *)
(*                                                                         *)
(* A path string is modelled as the sequence of its "/"-separated          *)
(* segments (str.split("/")): "/repo/m/a" is <<"", "repo", "m", "a">>,     *)
(* "../m/a" is <<"..", "m", "a">>, "." is <<".">>.                         *)
(***************************************************************************)
EXTENDS Integers, Sequences, FiniteSets, TLC

VARIABLES
    tree,        \* the files on disk: a set of file records (fixed per run)
    roots,       \* the roots list handed to build_dependency_dict
    bpc,         \* position of main/build: "main","roots","expand","returned","raised"
    err,         \* the exception that ended the run, or "none"
    rootIdx,     \* index of the next start_root of the loop at line 112
    cwd,         \* the process working directory (os.chdir / os.getcwd)
    dependents,  \* the defaultdict(set): a function from key to set of dependents
    cache,       \* the lru_cache of find_deps_for_dir: arguments, least recent first
    stack,       \* the active find_deps_for_dir calls, innermost last
    expanded,    \* how often each directory was listed by get_tf_files (history)
    qpc,         \* position of a query: "idle","run","done","raised"
    qsubject,    \* the subject of the running (or last) query
    modules,     \* the modules set of the running (or last) query
    qstack,      \* the active find_mods_affected calls, innermost last
    qexpanded,   \* how often each subject's dependents were iterated (history)
    qcount,      \* queries started since the last build returned (history)
    root_path,   \* sys.argv[1], the roots search path of main
    runs,        \* calls of build_dependency_dict so far (history)
    first,       \* roots and returned map of the first build (history)
    result       \* the map as the last build returned it (history)

vars == <<tree, roots, bpc, err, rootIdx, cwd, dependents, cache, stack,
          expanded, qpc, qsubject, modules, qstack, qexpanded, qcount,
          root_path, runs, first, result>>

histVars == <<root_path, runs, first, result>>
buildVars == <<tree, roots, bpc, err, rootIdx, cwd, dependents, cache, stack, expanded>>
\* what a query leaves alone apart from the map it reads
frameVars == <<tree, roots, bpc, err, rootIdx, cwd, cache, stack, expanded, histVars>>
queryVars == <<qpc, qsubject, modules, qstack, qexpanded, qcount>>

----------------------------------------------------------------------------
(* Bounds *)

MaxFiles == 4        \* files present in a tree
MaxRoots == 2        \* length of the roots list
MaxEdges == 4        \* edges of a dependency map handed directly to a query
MaxDepth == 5        \* call depth at which the interpreter raises RecursionError
MaxQueries == 2      \* queries run on one returned map
MaxRuns == 2         \* calls of build_dependency_dict on one tree

(* functools.lru_cache() default maxsize *)
LruMaxSize == 128

----------------------------------------------------------------------------
(* Sequence helpers *)

Last(s) == s[Len(s)]
Front(s) == SubSeq(s, 1, Len(s) - 1)
Range(s) == {s[i] : i \in 1..Len(s)}
Perms(S) == {f \in [1..Cardinality(S) -> S] : \A i, j \in 1..Cardinality(S) : f[i] = f[j] => i = j}
Min(a, b) == IF a < b THEN a ELSE b

----------------------------------------------------------------------------
(* os.path *)

isabs(p) == Len(p) > 0 /\ p[1] = ""

\* the non-empty components of a path, as in [x for x in p.split("/") if x]
RECURSIVE comps(_)
comps(p) ==
    IF p = <<>> THEN <<>>
    ELSE IF Head(p) = "" THEN comps(Tail(p))
    ELSE <<Head(p)>> \o comps(Tail(p))

\* posixpath.normpath's loop over the components
RECURSIVE collapse(_, _, _)
collapse(rest, acc, rooted) ==
    IF rest = <<>> THEN acc
    ELSE LET c == Head(rest) IN
         IF c \in {"", "."} THEN collapse(Tail(rest), acc, rooted)
         ELSE IF c # ".." THEN collapse(Tail(rest), Append(acc, c), rooted)
         ELSE IF acc # <<>> /\ Last(acc) # ".." THEN collapse(Tail(rest), Front(acc), rooted)
         ELSE IF rooted THEN collapse(Tail(rest), acc, rooted)
         ELSE collapse(Tail(rest), Append(acc, c), rooted)

normpath(p) ==
    LET c == collapse(p, <<>>, isabs(p)) IN
    IF isabs(p) THEN <<"">> \o c
    ELSE IF c = <<>> THEN <<".">> ELSE c

join(a, b) == IF isabs(b) THEN b ELSE a \o b

\* abspath that forgets to normalise
abspath_raw(wd, p) == IF isabs(p) THEN p ELSE join(wd, p)

abspath(wd, p) == normpath(IF isabs(p) THEN p ELSE join(wd, p))

RECURSIVE commonlen(_, _)
commonlen(a, b) ==
    IF a = <<>> \/ b = <<>> THEN 0
    ELSE IF Head(a) # Head(b) THEN 0
    ELSE 1 + commonlen(Tail(a), Tail(b))

\* relpath without the "." result for an empty relative path
relpath_empty(wd, path, start) ==
    LET start_list == comps(abspath(wd, start))
        path_list  == comps(abspath(wd, path))
        i          == commonlen(start_list, path_list)
    IN [k \in 1..(Len(start_list) - i) |-> ".."] \o SubSeq(path_list, i + 1, Len(path_list))

relpath(wd, path, start) ==
    LET start_list == comps(abspath(wd, start))
        path_list  == comps(abspath(wd, path))
        i          == commonlen(start_list, path_list)
        rel_list   == [k \in 1..(Len(start_list) - i) |-> ".."]
                        \o SubSeq(path_list, i + 1, Len(path_list))
    IN IF rel_list = <<>> THEN <<".">> ELSE rel_list

----------------------------------------------------------------------------
(* The directory tree the program runs on *)

start_dir == <<"", "repo">>

SD == <<"", "repo">>
R1 == <<"", "repo", "r1">>
R2 == <<"", "repo", "r2">>
MA == <<"", "repo", "m", "a">>
MB == <<"", "repo", "m", "b">>
MC == <<"", "repo", "m", "c">>
EXT == <<"", "ext">>
TFD == <<"", "repo", "r1", ".terraform">>

\* the directories that exist; /repo/m/gone and /repo/nope do not
DirsOnDisk == {<<"">>, SD, R1, R2, <<"", "repo", "m">>, MA, MB, MC, EXT, TFD}

\* the directory the operating system reaches by walking an absolute path from "/",
\* every step landing in an existing directory; NoEnt when some step does not
NoEnt == <<"?">>

RECURSIVE namei(_, _)
namei(at, rest) ==
    IF at \notin DirsOnDisk THEN NoEnt
    ELSE IF rest = <<>> THEN at
    ELSE LET c == Head(rest) IN
         IF c \in {"", "."} THEN namei(at, Tail(rest))
         ELSE IF c = ".." THEN namei(IF Len(at) > 1 THEN Front(at) ELSE at, Tail(rest))
         ELSE namei(Append(at, c), Tail(rest))

isdir(p) == namei(<<"">>, p) # NoEnt

\* os.chdir(path): the working directory afterwards
os_chdir(wd, path) == namei(<<"">>, IF isabs(path) THEN path ELSE join(wd, path))

\* line 105 left out: the working directory stays where it was
chdir_omitted(wd, tf_dir) == wd

\* line 105: os.chdir(tf_dir)
chdir_tf_dir(wd, tf_dir) == os_chdir(wd, tf_dir)

\* a file: its directory and name, whether open() succeeds, whether its text
\* matches the backend/cloud patterns, whether its text contains "source ",
\* and the sources of its module blocks
File(d, n, r, bk, sp, srcs) ==
    [dir |-> d, name |-> n, readable |-> r, has_backend |-> bk,
     has_source_sp |-> sp, sources |-> srcs]

\* the files a tree may contain; a tree is a subset of them
FileUniverse == {
    File(R1, <<"main", "tf">>, TRUE, TRUE, TRUE, << <<"..", "m", "a">> >>),
    File(R1, <<"net", "tf">>, TRUE, FALSE, TRUE, << <<"..", "m", "b">> >>),
    File(R1, <<"git", "tf">>, TRUE, FALSE, TRUE,
         << <<"git::https:", "", "example.com", "net.git", "", "modules", "..", "vpc">> >>),
    File(R1, <<"vendor", "tf">>, TRUE, FALSE, TRUE, << <<"vendor", "..", "..", "m", "a">> >>),
    File(TFD, <<"main", "tf">>, TRUE, TRUE, TRUE, <<>>),
    File(R2, <<"main", "tf">>, TRUE, TRUE, TRUE, << <<"..", "m", "a">>, <<".", "..", "m", "c">> >>),
    File(R2, <<"registry", "tf">>, TRUE, FALSE, TRUE, << <<"hashicorp", "consul", "aws">> >>),
    File(R2, <<"notes", "txt">>, TRUE, TRUE, TRUE, << <<"..", "m", "b">> >>),
    File(SD, <<"main", "tf">>, TRUE, TRUE, TRUE, << <<".", "m", "a">> >>),
    File(MA, <<"main", "tf">>, TRUE, FALSE, TRUE, << <<"..", "c">> >>),
    File(MA, <<"ext", "tf">>, TRUE, FALSE, TRUE, << <<"..", "..", "..", "ext">> >>),
    File(MB, <<"main", "tf">>, TRUE, FALSE, TRUE, << <<"..", "c">> >>),
    File(MB, <<"locked", "tf">>, FALSE, FALSE, TRUE, <<>>),
    File(MC, <<"main", "tf">>, TRUE, FALSE, TRUE, << <<"..", "a">> >>),
    File(MC, <<"gone", "tf">>, TRUE, FALSE, TRUE, << <<"..", "gone">> >>)
}

Trees == {t \in SUBSET FileUniverse : Cardinality(t) <= MaxFiles}

\* the root strings a roots list may hold; "nope" is absent on disk
RootCandidates == {<<"r1">>, <<".", "r2">>, <<".">>, <<"nope">>}

\* the values of sys.argv[1]; "nope" is absent on disk
RootPaths == {<<".">>, <<"r1">>, <<"nope">>}

RootLists ==
    UNION {{f \in [1..n -> RootCandidates] : \A i, j \in 1..n : f[i] = f[j] => i = j}
           : n \in 0..Min(MaxRoots, Cardinality(RootCandidates))}

----------------------------------------------------------------------------
(* get_tf_files, extract_sources *)

endswith_tf(name) == Last(name) = "tf"

\* os.listdir(path) filtered by endswith(".tf"): the names, as a set
get_tf_files(t, path) == {f \in t : f.dir = namei(<<"">>, path) /\ endswith_tf(f.name)}

\* the sources of the module blocks of a readable file
extract_sources(f) == IF f.has_source_sp THEN f.sources ELSE <<>>

\* the test  "./" in source : some segment that is followed by "/" ends in "."
\* (the segments used here that end in "." are "." and "..")
has_dot_slash(source) == \E i \in 1..(Len(source) - 1) : source[i] \in {".", ".."}

----------------------------------------------------------------------------
(* The dependents map and the lru_cache *)

\* dependents[key] = {child}: the last dependent replaces the earlier ones
dependents_set(deps, key, child) ==
    [k \in DOMAIN deps \cup {key} |-> IF k = key THEN {child} ELSE deps[k]]

dependents_add(deps, key, child) ==
    IF key \in DOMAIN deps
    THEN [deps EXCEPT ![key] = @ \cup {child}]
    ELSE [k \in DOMAIN deps \cup {key} |-> IF k = key THEN {child} ELSE deps[k]]

cache_hit(c, arg) == arg \in Range(c)

\* a hit moves the entry to the most recent end
cache_touch(c, arg) == SelectSeq(c, LAMBDA x : x # arg) \o <<arg>>

\* the result of a finished call is stored; the least recent entry is evicted when full
cache_store(c, arg) ==
    LET c1 == SelectSeq(c, LAMBDA x : x # arg) \o <<arg>>
    IN IF Len(c1) > LruMaxSize THEN Tail(c1) ELSE c1

\* a cache that outlives the call of build_dependency_dict
cache_kept(c) == c

\* line 98: every call of build_dependency_dict defines a new cached function
cache_new(c) == <<>>

EmptyMap == [k \in {} |-> {}]
Count(f, k) == IF k \in DOMAIN f THEN f[k] ELSE 0
Bump(f, k) == [x \in DOMAIN f \cup {k} |-> IF x = k THEN Count(f, k) + 1 ELSE f[x]]

----------------------------------------------------------------------------
(* get_root_paths *)

\* line 39 without the raise: any start path is walked
start_path_unchecked(wd, start_path) == TRUE

\* line 39: os.path.isdir(start_path)
start_path_isdir(wd, start_path) == isdir(IF isabs(start_path) THEN start_path ELSE join(wd, start_path))

\* the test  ".terraform" in this_path  (the only segment holding it is ".terraform")
in_dot_terraform(this_path) == \E i \in 1..Len(this_path) : this_path[i] = ".terraform"

\* os.walk(start_path): the path string of every directory at or below start_path
\* (nothing when start_path is no directory)
os_walk(wd, start_path) ==
    LET top == namei(<<"">>, join(wd, start_path))
    IN {start_path \o SubSeq(d, Len(top) + 1, Len(d)) :
            d \in {x \in DirsOnDisk : Len(x) >= Len(top) /\ SubSeq(x, 1, Len(top)) = top}}

\* lines 44-48 for one directory: the files are tried in listing order until one
\* has a backend; opening an unreadable one raises
scan_may_raise(t, dir) == \E f \in t : f.dir = dir /\ endswith_tf(f.name) /\ ~f.readable
scan_may_find(t, dir) == \E f \in t : f.dir = dir /\ endswith_tf(f.name) /\ f.readable /\ f.has_backend

----------------------------------------------------------------------------
(* build_dependency_dict *)

Init ==
    /\ tree \in Trees
    /\ roots \in RootLists
    /\ bpc = "main"
    /\ err = "none"
    /\ rootIdx = 1
    /\ cwd = start_dir
    /\ dependents = EmptyMap
    /\ cache = <<>>
    /\ stack = <<>>
    /\ expanded = EmptyMap
    /\ qpc = "idle"
    /\ qsubject = <<>>
    /\ modules = {}
    /\ qstack = <<>>
    /\ qexpanded = EmptyMap
    /\ qcount = 0
    /\ root_path = <<>>
    /\ runs = 0
    /\ first = [roots |-> <<>>, map |-> EmptyMap]
    /\ result = EmptyMap

Raise(stk, e) ==
    /\ stack' = stk
    /\ bpc' = "raised"
    /\ err' = e
    /\ UNCHANGED <<cache, expanded>>

\* the call find_deps_for_dir(tf_dir) through the lru_cache wrapper, up to the
\* listing of the directory at line 101; stk is the stack of the caller
find_deps_for_dir(tf_dir, stk) ==
    IF cache_hit(cache, tf_dir)
    THEN /\ cache' = cache_touch(cache, tf_dir)
         /\ stack' = stk
         /\ bpc' = IF stk = <<>> THEN "roots" ELSE "expand"
         /\ UNCHANGED <<err, expanded>>
    ELSE IF Len(stk) >= MaxDepth
    THEN Raise(stk, "RecursionError")
    ELSE IF ~isdir(tf_dir)
    THEN Raise(stk, "Exception")
    ELSE /\ \E files \in Perms(get_tf_files(tree, tf_dir)) :
               stack' = Append(stk, [tf_dir |-> tf_dir, files |-> files, sources |-> <<>>])
         /\ expanded' = Bump(expanded, tf_dir)
         /\ bpc' = "expand"
         /\ UNCHANGED <<err, cache>>

\* lines 95-96: the map is created and the process moves to start_dir
BuildCall ==
    /\ bpc = "main"
    /\ dependents' = EmptyMap
    /\ cwd' = os_chdir(cwd, start_dir)
    /\ cache' = cache_new(cache)
    /\ expanded' = EmptyMap
    /\ rootIdx' = 1
    /\ runs' = runs + 1
    /\ bpc' = "roots"
    /\ UNCHANGED <<tree, roots, err, stack, root_path, first, result>>
    /\ UNCHANGED queryVars

\* lines 112-114: one iteration of the loop over the roots
RootLoop ==
    /\ bpc = "roots"
    /\ rootIdx <= Len(roots)
    /\ LET wd == os_chdir(cwd, start_dir) IN
       /\ cwd' = wd
       /\ find_deps_for_dir(abspath(wd, roots[rootIdx]), <<>>)
    /\ rootIdx' = rootIdx + 1
    /\ UNCHANGED <<tree, roots, dependents, histVars>>
    /\ UNCHANGED queryVars

\* line 115
BuildReturn ==
    /\ bpc = "roots"
    /\ rootIdx > Len(roots)
    /\ bpc' = "returned"
    /\ result' = dependents
    /\ first' = IF runs = 1 THEN [roots |-> roots, map |-> dependents] ELSE first
    /\ qcount' = 0
    /\ UNCHANGED <<tree, roots, err, rootIdx, cwd, dependents, cache, stack, expanded>>
    /\ UNCHANGED <<root_path, runs>>
    /\ UNCHANGED <<qpc, qsubject, modules, qstack, qexpanded>>

\* lines 101-102: the next file of the listing is opened and its sources extracted
NextFile ==
    /\ bpc = "expand"
    /\ LET top == Last(stack) IN
       /\ top.sources = <<>>
       /\ top.files # <<>>
       /\ LET file == Head(top.files) IN
          IF ~file.readable
          THEN Raise(stack, "OSError")
          ELSE /\ stack' = [stack EXCEPT ![Len(stack)] =
                               [@ EXCEPT !.files = Tail(top.files),
                                         !.sources = extract_sources(file)]]
               /\ UNCHANGED <<bpc, err, cache, expanded>>
    /\ UNCHANGED <<tree, roots, rootIdx, cwd, dependents, histVars>>
    /\ UNCHANGED queryVars

\* lines 103-110: the next source of the current file
NextSource ==
    /\ bpc = "expand"
    /\ LET top == Last(stack) IN
       /\ top.sources # <<>>
       /\ LET source == Head(top.sources)
              tf_dir == top.tf_dir
              stk    == [stack EXCEPT ![Len(stack)] = [@ EXCEPT !.sources = Tail(top.sources)]]
          IN
          IF has_dot_slash(source)
          THEN LET wd             == chdir_tf_dir(cwd, tf_dir)
                   abs_mod_path   == abspath(wd, source)
                   rel_mod_path   == relpath(wd, abs_mod_path, start_dir)
                   rel_child_path == relpath(wd, tf_dir, start_dir)
               IN /\ cwd' = wd
                  /\ dependents' = dependents_add(dependents, rel_mod_path, rel_child_path)
                  /\ find_deps_for_dir(abs_mod_path, stk)
          ELSE /\ stack' = stk
               /\ UNCHANGED <<bpc, err, cwd, dependents, cache, expanded>>
    /\ UNCHANGED <<tree, roots, rootIdx, histVars>>
    /\ UNCHANGED queryVars

\* the loops of find_deps_for_dir are exhausted: it returns and the wrapper caches the call
Return ==
    /\ bpc = "expand"
    /\ LET top == Last(stack) IN
       /\ top.sources = <<>>
       /\ top.files = <<>>
       /\ cache' = cache_store(cache, top.tf_dir)
       /\ stack' = Front(stack)
       /\ bpc' = IF Len(stack) = 1 THEN "roots" ELSE "expand"
    /\ UNCHANGED <<tree, roots, err, rootIdx, cwd, dependents, expanded, histVars>>
    /\ UNCHANGED queryVars

----------------------------------------------------------------------------
(* find_mods_affected *)

\* deps_dict.get(subject, [subject]): a subject without an entry counts as its own dependent
deps_get_self(deps_dict, subject) ==
    IF subject \in DOMAIN deps_dict THEN deps_dict[subject] ELSE {subject}

\* line 120: deps_dict.get(subject, [])
deps_get(deps_dict, subject) == IF subject \in DOMAIN deps_dict THEN deps_dict[subject] ELSE {}

\* deps_dict[subject] on the defaultdict: a missing key is inserted with an empty set
deps_after_index(deps_dict, subject) ==
    [k \in DOMAIN deps_dict \cup {subject} |->
        IF k \in DOMAIN deps_dict THEN deps_dict[k] ELSE {}]

\* line 120: the map after deps_dict.get(subject, []); get never inserts
deps_after_get(deps_dict, subject) == deps_dict

\* modules = {dep} instead of modules.add(dep)
modules_overwrite(mods, dep) == {dep}

modules_add(mods, dep) == mods \cup {dep}

Identities(deps) == DOMAIN deps \cup UNION {deps[k] : k \in DOMAIN deps}

\* an identity nothing declares
Unknown == <<"m", "unknown">>

\* main, lines 137-139: find_mods_affected(mod, set(), dependents) is called
QueryStart ==
    /\ bpc = "returned"
    /\ qpc \in {"idle", "done"}
    /\ qcount < MaxQueries
    /\ \E mod \in Identities(dependents) \cup {Unknown} :
         /\ qsubject' = mod
         /\ qstack' = <<[subject |-> mod, todo |-> deps_get(dependents, mod)]>>
         /\ qexpanded' = Bump(EmptyMap, mod)
         /\ dependents' = deps_after_get(dependents, mod)
    /\ modules' = {}
    /\ qpc' = "run"
    /\ qcount' = qcount + 1
    /\ UNCHANGED frameVars

\* lines 120-122: the loop takes the next dep (a set iterates in any order),
\* adds it and calls find_mods_affected(dep, modules, deps_dict)
QueryStep ==
    /\ qpc = "run"
    /\ LET top == Last(qstack) IN
       \E dep \in top.todo :
         LET stk == [qstack EXCEPT ![Len(qstack)] = [@ EXCEPT !.todo = top.todo \ {dep}]] IN
         /\ modules' = modules_add(modules, dep)
         /\ IF Len(qstack) >= MaxDepth
            THEN /\ qpc' = "raised"
                 /\ qstack' = stk
                 /\ UNCHANGED <<qexpanded, dependents>>
            ELSE /\ qstack' = Append(stk, [subject |-> dep, todo |-> deps_get(dependents, dep)])
                 /\ qexpanded' = Bump(qexpanded, dep)
                 /\ dependents' = deps_after_get(dependents, dep)
                 /\ UNCHANGED qpc
    /\ UNCHANGED <<qsubject, qcount>>
    /\ UNCHANGED frameVars

\* line 123: the loop is exhausted and modules is returned to the caller
QueryReturn ==
    /\ qpc = "run"
    /\ Last(qstack).todo = {}
    /\ qstack' = Front(qstack)
    /\ qpc' = IF Len(qstack) = 1 THEN "done" ELSE "run"
    /\ UNCHANGED <<qsubject, modules, qexpanded, qcount>>
    /\ UNCHANGED <<dependents, frameVars>>

----------------------------------------------------------------------------
(* main up to the build; a second build on the same tree *)

\* main, lines 127-130: start_dir is the working directory and get_root_paths
\* (lines 34-49) either raises or returns the found paths in some order
Discover ==
    /\ bpc = "start"
    /\ LET walked == {q \in os_walk(cwd, root_path) : ~in_dot_terraform(q)}
           dirof(q) == namei(<<"">>, join(cwd, q))
       IN IF ~start_path_isdir(cwd, root_path)
          THEN /\ bpc' = "raised"
               /\ err' = "Exception"
               /\ UNCHANGED roots
          ELSE \/ /\ \E q \in walked : scan_may_raise(tree, dirof(q))
                  /\ bpc' = "raised"
                  /\ err' = "OSError"
                  /\ UNCHANGED roots
               \/ /\ \A q \in walked :
                        scan_may_raise(tree, dirof(q)) => scan_may_find(tree, dirof(q))
                  /\ roots' \in Perms({q \in walked : scan_may_find(tree, dirof(q))})
                  /\ bpc' = "main"
                  /\ UNCHANGED err
    /\ UNCHANGED <<tree, rootIdx, cwd, dependents, cache, stack, expanded, histVars>>
    /\ UNCHANGED queryVars

\* build_dependency_dict is called again on the unchanged tree, the roots in any order
Rebuild ==
    /\ bpc = "returned"
    /\ runs < MaxRuns
    /\ roots' \in Perms(Range(roots))
    /\ bpc' = "main"
    /\ UNCHANGED <<tree, err, rootIdx, cwd, dependents, cache, stack, expanded, histVars>>
    /\ UNCHANGED queryVars

----------------------------------------------------------------------------
(* Specifications *)

Next ==
    \/ BuildCall
    \/ RootLoop
    \/ BuildReturn
    \/ NextFile
    \/ NextSource
    \/ Return
    \/ QueryStart
    \/ QueryStep
    \/ QueryReturn

Spec == Init /\ [][Next]_vars

\* the whole of main: root discovery, the build, the queries
MInit ==
    /\ tree \in Trees
    /\ root_path \in RootPaths
    /\ roots = <<>>
    /\ bpc = "start"
    /\ err = "none"
    /\ rootIdx = 1
    /\ cwd = start_dir
    /\ dependents = EmptyMap
    /\ cache = <<>>
    /\ stack = <<>>
    /\ expanded = EmptyMap
    /\ qpc = "idle"
    /\ qsubject = <<>>
    /\ modules = {}
    /\ qstack = <<>>
    /\ qexpanded = EmptyMap
    /\ qcount = 0
    /\ runs = 0
    /\ first = [roots |-> <<>>, map |-> EmptyMap]
    /\ result = EmptyMap

MNext == Discover \/ Next

MainSpec == MInit /\ [][MNext]_vars

\* the build as a library function, called up to MaxRuns times on one tree
RNext ==
    \/ Rebuild
    \/ BuildCall
    \/ RootLoop
    \/ BuildReturn
    \/ NextFile
    \/ NextSource
    \/ Return

ReSpec == Init /\ [][RNext]_vars

\* the query on an arbitrary dependency map (find_mods_affected as a library function)
QIds == {<<"m", "a">>, <<"m", "b">>, <<"m", "c">>, <<"r1">>}

MapOf(E) == [k \in {e[1] : e \in E} |-> {e[2] : e \in {x \in E : x[1] = k}}]

QMaps == {MapOf(E) : E \in {X \in SUBSET (QIds \X QIds) : Cardinality(X) <= MaxEdges}}

QInit ==
    /\ tree = {}
    /\ roots = <<>>
    /\ bpc = "returned"
    /\ err = "none"
    /\ rootIdx = 1
    /\ cwd = start_dir
    /\ dependents \in QMaps
    /\ cache = <<>>
    /\ stack = <<>>
    /\ expanded = EmptyMap
    /\ qpc = "idle"
    /\ qsubject = <<>>
    /\ modules = {}
    /\ qstack = <<>>
    /\ qexpanded = EmptyMap
    /\ qcount = 0
    /\ root_path = <<>>
    /\ runs = 1
    /\ first = [roots |-> <<>>, map |-> dependents]
    /\ result = dependents

QNext ==
    \/ QueryStart
    \/ QueryStep
    \/ QueryReturn

QSpec == QInit /\ [][QNext]_vars

----------------------------------------------------------------------------
(* Reference notions the properties are stated against *)

DirectDependents(deps, x) == IF x \in DOMAIN deps THEN deps[x] ELSE {}

RECURSIVE Closure(_, _)
Closure(deps, S) ==
    LET T == S \cup UNION {DirectDependents(deps, x) : x \in S}
    IN IF T = S THEN S ELSE Closure(deps, T)

\* the identities reachable from x by one or more dependency->dependent edges
Reach(deps, x) == Closure(deps, DirectDependents(deps, x))

Acyclic(deps) == \A x \in Identities(deps) : x \notin Reach(deps, x)

\* the directory a path leads to when followed segment by segment from directory d
RECURSIVE Walk(_, _)
Walk(d, p) ==
    IF p = <<>> THEN d
    ELSE LET c == Head(p) IN
         IF c \in {"", "."} THEN Walk(d, Tail(p))
         ELSE IF c = ".." THEN Walk(IF Len(d) > 1 THEN Front(d) ELSE d, Tail(p))
         ELSE Walk(Append(d, c), Tail(p))

\* the directory a ModuleIdentity names
Denotes(id) == Walk(start_dir, id)

\* a filesystem-relative source: one that begins with ./ or ../
IsRelative(source) == Len(source) > 1 /\ source[1] \in {".", ".."}

\* directory D holds a declaration file with a relative source that leads to M
DeclaresInto(D, M) ==
    \E f \in tree :
        /\ f.dir = D
        /\ Last(f.name) = "tf"
        /\ \E i \in 1..Len(f.sources) :
              IsRelative(f.sources[i]) /\ Walk(D, f.sources[i]) = M

ExpandedDirs == {Walk(<<"">>, d) : d \in DOMAIN expanded}

\* every source of the tree that passes the "./" test is a relative one
OnlyRelativeMarked ==
    \A f \in tree : \A i \in 1..Len(f.sources) :
        has_dot_slash(f.sources[i]) => IsRelative(f.sources[i])

\* the directories the roots list names and those reachable from them through
\* relative sources
RECURSIVE DirClosure(_)
DirClosure(S) ==
    LET T == S \cup {M \in DirsOnDisk : \E D \in S : DeclaresInto(D, M)}
    IN IF T = S THEN S ELSE DirClosure(T)

ReachableDirs == DirClosure({Walk(start_dir, roots[i]) : i \in 1..Len(roots)})

\* the edges of the map, as pairs <<directory, dependent directory>>
EdgesOf(deps) == UNION {{<<Denotes(k), Denotes(c)>> : c \in deps[k]} : k \in DOMAIN deps}

IsPrefix(a, b) == Len(a) <= Len(b) /\ SubSeq(b, 1, Len(a)) = a

----------------------------------------------------------------------------
(* Properties *)

\* C1: on a map without a cycle a finished query holds exactly the identities
\* reachable from the subject by one or more dependency->dependent edges, and
\* not the subject itself.
C1_ReachExact ==
    (qpc = "done" /\ Acyclic(dependents)) =>
        (modules = Reach(dependents, qsubject) /\ qsubject \notin modules)

\* a finished query over a chain: b depends on the subject, a only on b
C1_ChainWitness ==
    /\ qpc = "done"
    /\ Acyclic(dependents)
    /\ \E a, b \in modules :
          /\ b \in DirectDependents(dependents, qsubject)
          /\ a \in DirectDependents(dependents, b)
          /\ a \notin DirectDependents(dependents, qsubject)

\* C2: a cycle among the declared sources does not stop the build from
\* returning: the build never ends in a RecursionError.
C2_CycleBuildReturns == ~(bpc = "raised" /\ err = "RecursionError")

\* C3: a query returns on every map, also on one with a cycle of dependents:
\* no query ends in a RecursionError.
C3_QueryReturns == qpc # "raised"

\* C4: however a module was referenced, it has one identity: no two keys and
\* no two dependents of a key name the same directory, and (on a tree whose
\* path-like sources are all relative ones) the key of a module holds exactly
\* the expanded directories that declare a relative source leading to it (in a
\* diamond deps[C] = {A, B}).
C4_OneIdentityPerModule ==
    bpc = "returned" =>
        /\ \A k1, k2 \in DOMAIN dependents : Denotes(k1) = Denotes(k2) => k1 = k2
        /\ \A k \in DOMAIN dependents : \A c1, c2 \in dependents[k] :
              Denotes(c1) = Denotes(c2) => c1 = c2
        /\ \A M \in DirsOnDisk :
              LET Ds == {D \in ExpandedDirs : DeclaresInto(D, M)}
              IN (OnlyRelativeMarked /\ Ds # {}) => \E k \in DOMAIN dependents :
                                /\ Denotes(k) = M
                                /\ {Denotes(c) : c \in dependents[k]} = Ds

\* the diamond: r1 declares m/a and m/b, both declare m/c
C4_DiamondWitness ==
    /\ bpc = "returned"
    /\ {<<"m", "a">>, <<"m", "b">>, <<"m", "c">>} \subseteq DOMAIN dependents
    /\ dependents[<<"m", "a">>] = {<<"r1">>}
    /\ dependents[<<"m", "b">>] = {<<"r1">>}
    /\ dependents[<<"m", "c">>] = {<<"m", "a">>, <<"m", "b">>}

\* C5: within one build every directory is listed at most once.
C5_ExpandedOnce == \A d \in DOMAIN expanded : expanded[d] <= 1

\* C6: a source that does not begin with ./ or ../ adds nothing to the map:
\* every key is the target of a relative source of some declaration file.
C6_OnlyRelativeSources ==
    \A k \in DOMAIN dependents :
        \E f \in tree : \E i \in 1..Len(f.sources) :
            IsRelative(f.sources[i]) /\ Walk(f.dir, f.sources[i]) = Denotes(k)

\* C7: when the build has returned the working directory is the one the
\* build was called in.
C7_CwdRestored == bpc = "returned" => cwd = start_dir

\* C8 (as stated): no identity in the map has a "." or ".." segment.
C8_NoDotSegments ==
    \A id \in Identities(dependents) : \A i \in 1..Len(id) : id[i] \notin {".", ".."}

\* C8 (amended): every identity in the map is a normalised path relative to
\* start_dir: it is "." exactly when it names start_dir, it begins with a run
\* of ".." exactly when it names a directory outside start_dir, and apart from
\* that it has no ".", ".." or empty segment.
C8_NormalisedIdentity ==
    \A id \in Identities(dependents) :
        /\ Len(id) >= 1
        /\ (id = <<".">>) <=> (Denotes(id) = start_dir)
        /\ (id[1] = "..") <=> ~IsPrefix(start_dir, Denotes(id))
        /\ id # <<".">> =>
              \E n \in 0..(Len(id) - 1) :
                  /\ \A i \in 1..n : id[i] = ".."
                  /\ \A i \in (n + 1)..Len(id) : id[i] \notin {".", "..", ""}

\* a returned build whose root is start_dir and whose module lies outside it
C8_DotAndOutsideWitness ==
    /\ bpc = "returned"
    /\ <<"..", "ext">> \in DOMAIN dependents
    /\ \E k \in DOMAIN dependents : <<".">> \in dependents[k]

\* C9: an unreadable file or a missing referenced directory does not end the
\* build: on a tree whose sources are relative or plain registry references,
\* the only OSError/Exception that ends it is the one raised for a root itself.
C9_ErrorsNonFatal ==
    (OnlyRelativeMarked /\ bpc = "raised" /\ err \in {"OSError", "Exception"}) => stack = <<>>

\* C10: when a root is absent the build fails before any graph work: nothing
\* has been expanded or recorded when the error is raised.
C10_AbsentRootFailsFirst ==
    (bpc = "raised" /\ err = "Exception" /\ stack = <<>>) =>
        (expanded = EmptyMap /\ dependents = EmptyMap /\ cwd = start_dir)

\* C11: a second build with the same roots on the unchanged tree returns the
\* map the first build returned.
C11_RebuildSameMap ==
    (bpc = "returned" /\ runs >= 2 /\ roots = first.roots) => dependents = first.map

\* a second build has returned a map with edges, started in the directory the
\* first build left the process in
C11_RebuildWitness ==
    /\ bpc = "returned"
    /\ runs = 2
    /\ roots = first.roots
    /\ cwd # start_dir
    /\ DOMAIN dependents # {}

\* C12: a query whose subject has no entry in the map returns the empty set
\* and raises nothing: it never adds a module, never recurses, never fails.
C12_AbsentSubjectEmpty ==
    (qpc # "idle" /\ qsubject \notin DOMAIN dependents) =>
        (modules = {} /\ qpc # "raised" /\ Len(qstack) <= 1)

\* a finished query for a subject absent from a map that has entries
C12_AbsentWitness ==
    /\ qpc = "done"
    /\ qsubject \notin DOMAIN dependents
    /\ DOMAIN dependents # {}
    /\ modules = {}

\* C13: when the roots search path is no directory the run ends in root
\* discovery with the Exception of get_root_paths: no build is called, no map
\* is built and no query runs.
C13_BadRootPathFatal ==
    ~isdir(join(start_dir, root_path)) =>
        /\ bpc \in {"start", "raised"}
        /\ bpc = "raised" => err = "Exception"
        /\ runs = 0
        /\ dependents = EmptyMap
        /\ expanded = EmptyMap
        /\ qpc = "idle" /\ qcount = 0

\* the run has ended on an absent search path although the tree holds files
C13_BadRootPathWitness ==
    /\ bpc = "raised"
    /\ ~isdir(join(start_dir, root_path))
    /\ tree # {}

\* C14: the returned map is exactly the reverse of the declaration relation over
\* the directories reachable from the roots: D is a dependent of M if and only
\* if D is reachable and declares a relative source (./ or ../) leading to M.
C14_ReverseOfDeclarations ==
    bpc = "returned" =>
        EdgesOf(dependents) =
            {e \in DirsOnDisk \X DirsOnDisk : e[2] \in ReachableDirs /\ DeclaresInto(e[2], e[1])}

\* C15: every recorded edge is the resolution of a source against the
\* directory of the file that declares it, whatever the working directory was.
C15_ResolvedAgainstDeclaringDir ==
    \A k \in DOMAIN dependents : \A c \in dependents[k] :
        \E f \in tree :
            /\ f.dir = Denotes(c)
            /\ \E i \in 1..Len(f.sources) :
                  has_dot_slash(f.sources[i]) /\ Walk(f.dir, f.sources[i]) = Denotes(k)

\* r1 is the only root; expanding m/a or m/b moved the process there (the edge
\* into m/c is recorded) and r1 has since resolved a later source of its own
C15_LaterSourceWitness ==
    /\ roots = << <<"r1">> >>
    /\ runs = 1
    /\ <<"m", "c">> \in DOMAIN dependents
    /\ cwd = R1
    /\ {<<"m", "a">>, <<"m", "b">>} \subseteq DOMAIN dependents

\* C16: on a map without a cycle the dependents of an identity are iterated at
\* most once per query.
C16_IteratedOnce ==
    Acyclic(dependents) => \A x \in DOMAIN qexpanded : qexpanded[x] <= 1

\* C17: queries leave the map as the build returned it, every key keeps a
\* non-empty set, and the result of a query is the closure of its subject in
\* that map whatever was queried before.
C17_MapReadOnly ==
    bpc = "returned" =>
        /\ dependents = result
        /\ \A k \in DOMAIN dependents : dependents[k] # {}
        /\ qpc = "done" => modules = Reach(result, qsubject)

\* the second query on one map has finished and has looked up an identity
\* that has no entry
C17_SecondQueryWitness ==
    /\ bpc = "returned"
    /\ qpc = "done"
    /\ qcount = 2
    /\ \E m \in modules : m \notin DOMAIN dependents

\* C18: a build with the roots in another order (and the files of a directory
\* listed in any order) returns the map the first build returned.
C18_OrderIndependent ==
    (bpc = "returned" /\ runs >= 2) => dependents = first.map

\* a second build has returned after visiting the two roots in the other order
C18_PermutedWitness ==
    /\ bpc = "returned"
    /\ runs = 2
    /\ Len(roots) = 2
    /\ roots # first.roots
    /\ Cardinality(DOMAIN dependents) >= 2

====
